---- MODULE Spec2Model ----
(***************************************************************************)
(* A model of src/8-puzzle/main.py: the A* solver for the sliding-tile     *)
(* puzzle (Node, CandidateQueue, HistoryMap and the driver go).            *)
(*                                                                         *)
(* A board state is a function [0..D-1 -> [0..D-1 -> label]], as the       *)
(* source's list of lists indexed from 0; labels are the one-character     *)
(* strings the source uses.  Node objects live in the arena nodes, and a   *)
(* reference to a Node is its index in the arena (0 is None).              *)
(*                                                                         *)
(* DIMENSION is a module-level setting of the source (3 as shipped).  The  *)
(* model runs the program with two settings: 3, with inputs at most        *)
(* MaxScramble slides from DEBUG_TARGET_STATE, and 2, where the whole move *)
(* graph (24 configurations, two classes of 12) can be exhausted.          *)
(***************************************************************************)
EXTENDS Integers, Sequences, FiniteSets, TLC

VARIABLES
    DIMENSION,      \* main.py:5, the board dimension the process runs with
    start_state,    \* the start_state argument of go
    target_state,   \* the target_state argument of go
    nodes,          \* the Node objects created by the current call of go
    queue,          \* CandidateQueue.__queue: references to nodes
    map,            \* HistoryMap.__map: key (repr) -> reference to a node
    pc,             \* where the process is: IDLE, RUNNING, SOLVED, EXHAUSTED, RAISED
    result,         \* the value go returned
    output,         \* what print_branch printed, one entry per print call
    candidate,      \* the local candidate of go: the node popped last
    calls,          \* how many times go was called in this process
    trace,          \* history: the nodes popped by the current call, in order
    expansions,     \* history: the keys of the nodes expanded by the current call
    returned        \* history: one record per call of go that returned

vars == <<DIMENSION, start_state, target_state, nodes, queue, map, pc, result,
          output, candidate, calls, trace, expansions, returned>>

----------------------------------------------------------------------------
(* Bounds of the model *)

\* the calls of go one process makes
MaxCalls == 2

\* for DIMENSION = 3: the start is at most this many slides away from the target
MaxScramble == 6

----------------------------------------------------------------------------
(* Module-level names of main.py *)

EMPTY == "0"

\* the label a malformed input carries where the empty tile should be
Extra == "9"

\* a literal list of lists, as written in the source, as a 0-indexed board
Grid(rows) ==
    [i \in 0..(Len(rows) - 1) |-> [j \in 0..(Len(rows[i + 1]) - 1) |-> rows[i + 1][j + 1]]]

DEBUG_START_STATE == Grid(<< <<"2", "1", "3">>, <<EMPTY, "8", "4">>, <<"6", "7", "5">> >>)

DEBUG_TARGET_STATE == Grid(<< <<"1", "2", "3">>, <<"8", EMPTY, "4">>, <<"7", "6", "5">> >>)

None == 0

----------------------------------------------------------------------------
(* class Node *)

Range(D) == 0..(D - 1)

\* Node.__repr__: the labels of the rows joined, row by row
Repr(state) ==
    LET D == Cardinality(DOMAIN state)
    IN  [k \in 1..(D * D) |-> state[(k - 1) \div D][(k - 1) % D]]

\* Node.__str__: the rows, with the empty tile shown as a blank
Str(state) ==
    [i \in DOMAIN state |->
        [j \in DOMAIN state[i] |-> IF state[i][j] = EMPTY THEN " " ELSE state[i][j]]]

\* a default returned where the source raises: the upper-left corner
FindEmpty_Default(state) ==
    LET empties == {p \in (DOMAIN state) \X (DOMAIN state) : state[p[1]][p[2]] = EMPTY}
    IN  IF empties = {}
        THEN <<0, 0>>
        ELSE CHOOSE p \in empties :
                \A q \in empties : p[1] < q[1] \/ (p[1] = q[1] /\ p[2] <= q[2])

\* the outcome of Node.__find_empty when it raises: no point
NotFound == <<>>

\* Node.__find_empty: the first empty tile in row-major order, NotFound when it raises
FindEmpty(state) ==
    LET empties == {p \in (DOMAIN state) \X (DOMAIN state) : state[p[1]][p[2]] = EMPTY}
    IN  IF empties = {}
        THEN NotFound
        ELSE CHOOSE p \in empties :
                \A q \in empties : p[1] < q[1] \/ (p[1] = q[1] /\ p[2] <= q[2])

\* the first two candidates exchanged: up, down, right, left
GetNextEmpties_UpFirst(current_empty, D) ==
    SelectSeq(<< <<current_empty[1] - 1, current_empty[2]>>,
                 <<current_empty[1] + 1, current_empty[2]>>,
                 <<current_empty[1], current_empty[2] + 1>>,
                 <<current_empty[1], current_empty[2] - 1>> >>,
              LAMBDA point : /\ 0 <= point[1] /\ point[1] <= D - 1
                             /\ 0 <= point[2] /\ point[2] <= D - 1)

\* the upper bound one too small: the last row and the last column are left out
GetNextEmpties_OffByOne(current_empty, D) ==
    SelectSeq(<< <<current_empty[1] + 1, current_empty[2]>>,
                 <<current_empty[1] - 1, current_empty[2]>>,
                 <<current_empty[1], current_empty[2] + 1>>,
                 <<current_empty[1], current_empty[2] - 1>> >>,
              LAMBDA point : /\ 0 <= point[1] /\ point[1] < D - 1
                             /\ 0 <= point[2] /\ point[2] < D - 1)

\* a slip in the first candidate: the column moves with the row
GetNextEmpties_Diagonal(current_empty, D) ==
    SelectSeq(<< <<current_empty[1] + 1, current_empty[2] + 1>>,
                 <<current_empty[1] - 1, current_empty[2]>>,
                 <<current_empty[1], current_empty[2] + 1>>,
                 <<current_empty[1], current_empty[2] - 1>> >>,
              LAMBDA point : /\ 0 <= point[1] /\ point[1] <= D - 1
                             /\ 0 <= point[2] /\ point[2] <= D - 1)

\* Node.__get_next_empties: down, up, right, left, kept when on the board
GetNextEmpties(current_empty, D) ==
    SelectSeq(<< <<current_empty[1] + 1, current_empty[2]>>,
                 <<current_empty[1] - 1, current_empty[2]>>,
                 <<current_empty[1], current_empty[2] + 1>>,
                 <<current_empty[1], current_empty[2] - 1>> >>,
              LAMBDA point : /\ 0 <= point[1] /\ point[1] <= D - 1
                             /\ 0 <= point[2] /\ point[2] <= D - 1)

\* Node.__get_next_state: a copy of the state with the two tiles exchanged
GetNextState(state, current_empty, next_empty) ==
    [i \in DOMAIN state |-> [j \in DOMAIN state[i] |->
        IF <<i, j>> = next_empty THEN state[current_empty[1]][current_empty[2]]
        ELSE IF <<i, j>> = current_empty THEN state[next_empty[1]][next_empty[2]]
        ELSE state[i][j]]]

\* the increment forgotten: every node gets the depth of its parent
GetG_NoIncrement(ns, parent) == IF parent = None THEN 0 ELSE ns[parent].g

\* the depth counted in nodes, not in moves: the root is at 1
GetG_CountsNodes(ns, parent) == IF parent = None THEN 1 ELSE ns[parent].g + 1

\* Node.__get_g: the depth of the node
GetG(ns, parent) == IF parent = None THEN 0 ELSE ns[parent].g + 1

\* the empty cell of the target counted as a tile
GetH_CountsEmpty(state, target, D) ==
    Cardinality({p \in Range(D) \X Range(D) : target[p[1]][p[2]] # state[p[1]][p[2]]})

\* Node.__get_h: the number of tiles of the target that are not in place
GetH(state, target, D) ==
    Cardinality({p \in Range(D) \X Range(D) :
                    /\ target[p[1]][p[2]] # state[p[1]][p[2]]
                    /\ target[p[1]][p[2]] # EMPTY})

\* Node.__init__; the target is the one target_state all nodes of a call share
NewNode(ns, state, target, parent, D) ==
    LET g == GetG(ns, parent)
        h == GetH(state, target, D)
    IN  [state |-> state, parent |-> parent, g |-> g, h |-> h, f |-> g + h]

\* the test loosened: one tile out of place passes
IsTarget_AlmostThere(node) == node.h <= 1

\* Node.is_target
IsTarget(node) == node.h = 0

\* Node.create_children: the nodes it constructs, in order (the empty tile exists)
CreateChildren(ns, self, target, D) ==
    LET empty        == FindEmpty(ns[self].state)
        next_empties == GetNextEmpties(empty, D)
    IN  [k \in 1..Len(next_empties) |->
            NewNode(ns, GetNextState(ns[self].state, empty, next_empties[k]), target, self, D)]

\* the node printed before its parent: the goal's line first
RECURSIVE PrintBranch_GoalFirst(_, _)
PrintBranch_GoalFirst(ns, self) ==
    IF ns[self].parent # None
    THEN <<Str(ns[self].state)>> \o PrintBranch_GoalFirst(ns, ns[self].parent)
    ELSE <<Str(ns[self].state)>>

\* Node.print_branch: what is printed, the root's line first
RECURSIVE PrintBranch(_, _)
PrintBranch(ns, self) ==
    IF ns[self].parent # None
    THEN Append(PrintBranch(ns, ns[self].parent), Str(ns[self].state))
    ELSE <<Str(ns[self].state)>>

----------------------------------------------------------------------------
(* class CandidateQueue *)

\* nodes ordered by their depth alone (breadth-first)
SortKey_Depth(node) == node.g

\* nodes ordered by the heuristic alone (greedy best-first)
SortKey_Greedy(node) == node.h

\* the order reversed: the node with the greatest f comes first
SortKey_Descending(node) == 0 - node.f

\* Node.__lt__ and Node.__gt__: nodes are ordered by f alone
SortKey(node) == node.f

SetMin(S) == CHOOSE x \in S : \A y \in S : x <= y

\* list.sort(): stable, ascending in the order of Node.__lt__
RECURSIVE SortBuckets(_, _, _)
SortBuckets(ns, q, keys) ==
    IF keys = {}
    THEN <<>>
    ELSE LET k == SetMin(keys)
         IN  SelectSeq(q, LAMBDA r : SortKey(ns[r]) = k) \o SortBuckets(ns, q, keys \ {k})

Sort(ns, q) == SortBuckets(ns, q, {SortKey(ns[q[k]]) : k \in DOMAIN q})

\* the new nodes put in front of the old ones before the sort
Push_ChildrenFirst(ns, q, refs) == Sort(ns, refs \o q)

\* cost-based replacement: a new node takes the place of the queued nodes
\* that hold its configuration
Push_Replace(ns, q, refs) ==
    Sort(ns, SelectSeq(q, LAMBDA r : \A k \in DOMAIN refs : ns[refs[k]].state # ns[r].state)
             \o refs)

\* the sort forgotten: the nodes are only appended
Push_NoSort(ns, q, refs) == q \o refs

\* CandidateQueue.push with a list: extend, then sort
Push(ns, q, refs) == Sort(ns, q \o refs)

\* CandidateQueue.is_empty
IsEmpty(q) == Len(q) = 0

----------------------------------------------------------------------------
(* class HistoryMap *)

\* HistoryMap.contains
Contains(m, node) == Repr(node.state) \in DOMAIN m

\* HistoryMap.add
Add(m, ref, node) ==
    [k \in (DOMAIN m) \cup {Repr(node.state)} |-> IF k = Repr(node.state) THEN ref ELSE m[k]]

----------------------------------------------------------------------------
(* The move graph: the configurations one legal slide away *)

Adjacent(p, q) ==
    \/ (p[1] = q[1] /\ (p[2] - q[2] = 1 \/ q[2] - p[2] = 1))
    \/ (p[2] = q[2] /\ (p[1] - q[1] = 1 \/ q[1] - p[1] = 1))

Exchange(c, p, q) ==
    [i \in DOMAIN c |-> [j \in DOMAIN c[i] |->
        IF <<i, j>> = p THEN c[q[1]][q[2]]
        ELSE IF <<i, j>> = q THEN c[p[1]][p[2]]
        ELSE c[i][j]]]

Slides(c) ==
    LET cells == (DOMAIN c) \X (DOMAIN c)
    IN  {Exchange(c, p, q) : <<p, q>> \in
            {pq \in cells \X cells : c[pq[1][1]][pq[1][2]] = EMPTY /\ Adjacent(pq[1], pq[2])}}

\* the configurations at most k slides away from those of S
RECURSIVE Ball(_, _)
Ball(S, k) ==
    IF k = 0 THEN S ELSE Ball(S \cup UNION {Slides(c) : c \in S}, k - 1)

\* the number of slides of a shortest path from c to d, -1 when there is none
RECURSIVE DistFrom(_, _, _, _)
DistFrom(seen, frontier, d, k) ==
    IF d \in frontier THEN k
    ELSE IF frontier = {} THEN -1
    ELSE LET seen2 == seen \cup frontier
         IN  DistFrom(seen2, (UNION {Slides(c) : c \in frontier}) \ seen2, d, k + 1)

Dist(c, d) == DistFrom({}, {c}, d, 0)

----------------------------------------------------------------------------
(* The inputs *)

\* the boards of dimension 2 that hold each of the four labels once
Boards2(labels) ==
    {Grid(<< <<s[1], s[2]>>, <<s[3], s[4]>> >>) :
        s \in {t \in [1..4 -> labels] : \A a, b \in 1..4 : a # b => t[a] # t[b]}}

WellFormed2 == Boards2({EMPTY, "1", "2", "3"})

\* boards with no empty tile
Malformed2 == Boards2({Extra, "1", "2", "3"})

Inputs ==
    {<<2, s, t>> : s \in WellFormed2 \cup Malformed2, t \in WellFormed2}
    \cup {<<3, s, DEBUG_TARGET_STATE>> : s \in Ball({DEBUG_TARGET_STATE}, MaxScramble)}

\* a configuration with exactly one empty cell and the labels of the target
WellFormed(state, target) ==
    /\ DOMAIN state = DOMAIN target
    /\ Cardinality({k \in DOMAIN Repr(state) : Repr(state)[k] = EMPTY}) = 1
    /\ Cardinality({k \in DOMAIN Repr(target) : Repr(target)[k] = EMPTY}) = 1
    /\ {Repr(state)[k] : k \in DOMAIN Repr(state)} = {Repr(target)[k] : k \in DOMAIN Repr(target)}
    /\ Cardinality({Repr(state)[k] : k \in DOMAIN Repr(state)}) = Len(Repr(state))

----------------------------------------------------------------------------
(* The process *)

Init ==
    /\ \E in \in Inputs :
        /\ DIMENSION = in[1]
        /\ start_state = in[2]
        /\ target_state = in[3]
    /\ nodes = <<>>
    /\ queue = <<>>
    /\ map = <<>>
    /\ pc = "IDLE"
    /\ result = None
    /\ output = <<>>
    /\ candidate = None
    /\ calls = 0
    /\ trace = <<>>
    /\ expansions = <<>>
    /\ returned = <<>>

\* the queue built over the list the previous call left behind
GoQueue_Shared(q, root) == Append(q, root)

\* go, lines 335-336: a queue over a new list that holds the root, a new map
GoQueue(q, root) == <<root>>

Go ==
    /\ pc \in {"IDLE", "SOLVED", "EXHAUSTED"}
    /\ calls < MaxCalls
    /\ calls' = calls + 1
    /\ nodes' = <<NewNode(<<>>, start_state, target_state, None, DIMENSION)>>
    /\ queue' = GoQueue(queue, 1)
    /\ map' = <<>>
    /\ pc' = "RUNNING"
    /\ result' = None
    /\ output' = <<>>
    /\ candidate' = None
    /\ trace' = <<>>
    /\ expansions' = <<>>
    /\ UNCHANGED <<DIMENSION, start_state, target_state, returned>>

\* go, lines 338-343: the popped node is the target
Solved ==
    /\ pc = "RUNNING"
    /\ ~IsEmpty(queue)
    /\ LET c == Head(queue)
       IN  /\ IsTarget(nodes[c])
           /\ candidate' = c
           /\ queue' = Tail(queue)
           /\ trace' = Append(trace, nodes[c])
           /\ output' = PrintBranch(nodes, c)
           /\ result' = nodes[c].f
           /\ pc' = "SOLVED"
           /\ returned' = Append(returned,
                [trace |-> trace', result |-> nodes[c].f, output |-> output'])
    /\ UNCHANGED <<DIMENSION, start_state, target_state, nodes, map, calls, expansions>>

\* the test of the history dropped
Seen_Never(m, node) == FALSE

\* go, line 345: the test that guards the expansion
Seen(m, node) == Contains(m, node)

\* go, lines 338-346: the popped node's key is in the history
Discard ==
    /\ pc = "RUNNING"
    /\ ~IsEmpty(queue)
    /\ LET c == Head(queue)
       IN  /\ ~IsTarget(nodes[c])
           /\ Seen(map, nodes[c])
           /\ candidate' = c
           /\ queue' = Tail(queue)
           /\ trace' = Append(trace, nodes[c])
    /\ UNCHANGED <<DIMENSION, start_state, target_state, nodes, map, pc, result,
                   output, calls, expansions, returned>>

\* the slides of create_children made one after the other on one list
RECURSIVE SlideInPlace(_, _, _)
SlideInPlace(state, empty, next_empties) ==
    IF next_empties = <<>>
    THEN state
    ELSE SlideInPlace(GetNextState(state, empty, Head(next_empties)), empty, Tail(next_empties))

\* the deepcopy of __get_next_state left out: every slide is made on the list
\* of the parent, which is the caller's list and the list of every node
Expand_NoCopy ==
    /\ pc = "RUNNING"
    /\ ~IsEmpty(queue)
    /\ LET c == Head(queue)
       IN  /\ ~IsTarget(nodes[c])
           /\ ~Seen(map, nodes[c])
           /\ FindEmpty(nodes[c].state) # NotFound
           /\ LET empty        == FindEmpty(nodes[c].state)
                  next_empties == GetNextEmpties(empty, DIMENSION)
                  shared       == SlideInPlace(nodes[c].state, empty, next_empties)
                  children     ==
                      [k \in 1..Len(next_empties) |->
                          NewNode(nodes, SlideInPlace(nodes[c].state, empty, SubSeq(next_empties, 1, k)),
                                  target_state, c, DIMENSION)]
                  refs         == [k \in 1..Len(children) |-> Len(nodes) + k]
                  aliased      == [i \in DOMAIN (nodes \o children) |->
                                      [(nodes \o children)[i] EXCEPT !.state = shared]]
              IN  /\ nodes' = aliased
                  /\ queue' = Push(aliased, Tail(queue), refs)
                  /\ map' = Add(map, c, nodes[c])
                  /\ start_state' = shared
           /\ candidate' = c
           /\ trace' = Append(trace, nodes[c])
           /\ expansions' = Append(expansions, Repr(nodes[c].state))
    /\ UNCHANGED <<DIMENSION, target_state, pc, result, output, calls, returned>>

\* go, lines 338-350: the popped node is expanded
Expand ==
    /\ pc = "RUNNING"
    /\ ~IsEmpty(queue)
    /\ LET c == Head(queue)
       IN  /\ ~IsTarget(nodes[c])
           /\ ~Seen(map, nodes[c])
           /\ FindEmpty(nodes[c].state) # NotFound
           /\ LET children == CreateChildren(nodes, c, target_state, DIMENSION)
                  refs     == [k \in 1..Len(children) |-> Len(nodes) + k]
              IN  /\ nodes' = nodes \o children
                  /\ queue' = Push(nodes \o children, Tail(queue), refs)
                  /\ map' = Add(map, c, nodes[c])
           /\ candidate' = c
           /\ trace' = Append(trace, nodes[c])
           /\ expansions' = Append(expansions, Repr(nodes[c].state))
    /\ UNCHANGED <<DIMENSION, start_state, target_state, pc, result, output, calls,
                   returned>>

\* go, line 348: __find_empty raises, and the exception leaves go
Raise ==
    /\ pc = "RUNNING"
    /\ ~IsEmpty(queue)
    /\ LET c == Head(queue)
       IN  /\ ~IsTarget(nodes[c])
           /\ ~Seen(map, nodes[c])
           /\ FindEmpty(nodes[c].state) = NotFound
           /\ candidate' = c
           /\ queue' = Tail(queue)
           /\ trace' = Append(trace, nodes[c])
    /\ pc' = "RAISED"
    /\ UNCHANGED <<DIMENSION, start_state, target_state, nodes, map, result, output,
                   calls, expansions, returned>>

\* the loop without its test: pop on the empty list raises IndexError
Exhausted_PopRaises ==
    /\ pc = "RUNNING"
    /\ IsEmpty(queue)
    /\ pc' = "RAISED"
    /\ UNCHANGED <<DIMENSION, start_state, target_state, nodes, queue, map, result,
                   output, candidate, calls, trace, expansions, returned>>

\* go, lines 338 and 352: the queue is empty
Exhausted ==
    /\ pc = "RUNNING"
    /\ IsEmpty(queue)
    /\ result' = -1
    /\ pc' = "EXHAUSTED"
    /\ returned' = Append(returned, [trace |-> trace, result |-> -1, output |-> output])
    /\ UNCHANGED <<DIMENSION, start_state, target_state, nodes, queue, map, output,
                   candidate, calls, trace, expansions>>

Next == Go \/ Solved \/ Discard \/ Expand \/ Raise \/ Exhausted

Spec == Init /\ [][Next]_vars

----------------------------------------------------------------------------
(* The program as shipped: DEBUG is True, and __main__ calls go once with  *)
(* the two debug states.  SpecMain runs that input next to the inputs of   *)
(* Spec, each with a single call of go.                                    *)

InitMain ==
    /\ \E in \in Inputs \cup {<<3, DEBUG_START_STATE, DEBUG_TARGET_STATE>>} :
        /\ DIMENSION = in[1]
        /\ start_state = in[2]
        /\ target_state = in[3]
    /\ nodes = <<>>
    /\ queue = <<>>
    /\ map = <<>>
    /\ pc = "IDLE"
    /\ result = None
    /\ output = <<>>
    /\ candidate = None
    /\ calls = 0
    /\ trace = <<>>
    /\ expansions = <<>>
    /\ returned = <<>>

\* __main__, line 362: the one call of go
MainGo == pc = "IDLE" /\ Go

NextMain == MainGo \/ Solved \/ Discard \/ Expand \/ Raise \/ Exhausted

SpecMain == InitMain /\ [][NextMain]_vars

\* the guard of Expand: ENABLED <<Expand>>_vars, written as a state predicate
ExpandEnabled ==
    /\ pc = "RUNNING"
    /\ ~IsEmpty(queue)
    /\ ~IsTarget(nodes[Head(queue)])
    /\ ~Seen(map, nodes[Head(queue)])
    /\ FindEmpty(nodes[Head(queue)].state) # NotFound

\* go is sequential code: a running call takes the step of the loop that is
\* enabled.  The last conjunct is WF_vars(Expand) with its ENABLED written
\* as ExpandEnabled.  Whether go is called again is left to the caller.
Fairness ==
    /\ WF_vars(Solved)
    /\ WF_vars(Discard)
    /\ WF_vars(Raise)
    /\ WF_vars(Exhausted)
    /\ (<>[]ExpandEnabled => []<><<Expand>>_vars)

SpecLive == Init /\ [][Next]_vars /\ Fairness

----------------------------------------------------------------------------
(* What the claims speak of *)

\* go has returned
Returned == pc \in {"SOLVED", "EXHAUSTED"}

\* the inputs of the call are well-formed
WellFormedInput == WellFormed(start_state, target_state)

\* a printed configuration read back: the blank is the empty tile
Unstr(printed) ==
    [i \in DOMAIN printed |->
        [j \in DOMAIN printed[i] |-> IF printed[i][j] = " " THEN EMPTY ELSE printed[i][j]]]

\* the path go printed, as configurations
Path == [k \in 1..Len(output) |-> Unstr(output[k])]

\* c matches the target at every cell where the target is not empty
MatchesTarget(c) ==
    \A i \in DOMAIN target_state : \A j \in DOMAIN target_state[i] :
        target_state[i][j] # EMPTY => c[i][j] = target_state[i][j]

\* the start is the target with two tiles exchanged, the empty cell untouched
TwoTilesSwapped ==
    \E p, q \in (DOMAIN target_state) \X (DOMAIN target_state) :
        /\ p # q
        /\ target_state[p[1]][p[2]] # EMPTY
        /\ target_state[q[1]][q[2]] # EMPTY
        /\ start_state = Exchange(target_state, p, q)

----------------------------------------------------------------------------
(* The claims *)

\* C1: for well-formed inputs whose target is reachable from the start by
\* legal slides, go returns the length of a shortest path from the start to
\* the target in the move graph.
C1_ReturnsShortestDistance ==
    (Returned /\ WellFormedInput /\ Dist(start_state, target_state) # -1)
        => (pc = "SOLVED" /\ result = Dist(start_state, target_state))

\* C1 witness: a solved call with a three-slide answer, found after popping
\* nodes that are not on the path
C1_Witness ==
    /\ pc = "SOLVED"
    /\ WellFormedInput
    /\ result = Dist(start_state, target_state)
    /\ result >= 3
    /\ Len(trace) > result + 1

\* C2: for well-formed inputs whose target is not reachable from the start,
\* go ends with the queue empty, returns -1, prints no path and raises nothing.
C2_UnreachableExhausts ==
    (pc \in {"SOLVED", "EXHAUSTED", "RAISED"} /\ WellFormedInput
        /\ Dist(start_state, target_state) = -1)
        => (pc = "EXHAUSTED" /\ result = -1 /\ output = <<>> /\ IsEmpty(queue))

\* C2 witness: the start is the target with two tiles swapped, and go
\* returned -1 after expanding the twelve configurations it can reach
C2_Witness ==
    /\ pc = "EXHAUSTED"
    /\ WellFormedInput
    /\ TwoTilesSwapped
    /\ result = -1
    /\ Cardinality(DOMAIN map) = 12

\* C3: when go solves, the printed path starts with the start configuration,
\* ends with a configuration that matches the target at every non-empty
\* target cell, and each configuration is one legal slide from the one before.
C3_PathIsValid ==
    (pc = "SOLVED") =>
        /\ Len(Path) >= 1
        /\ Path[1] = start_state
        /\ MatchesTarget(Path[Len(Path)])
        /\ \A k \in 1..(Len(Path) - 1) : Path[k + 1] \in Slides(Path[k])

\* C3 witness: a solved call that printed a path of at least three slides
C3_Witness ==
    /\ pc = "SOLVED"
    /\ Len(Path) >= 4
    /\ Path[1] = start_state
    /\ Path[Len(Path)] = target_state
    /\ \A k \in 1..(Len(Path) - 1) : Path[k + 1] \in Slides(Path[k])

\* C4: when go solves, the step count it returns is the goal node's f, is
\* the goal node's g, and is the number of moves of the printed path (its
\* configurations minus one); for DEBUG_START_STATE and DEBUG_TARGET_STATE
\* go solves and that count is at least 1.
C4_StepCountIsPathLength ==
    /\ (pc = "SOLVED") =>
            /\ result = nodes[candidate].f
            /\ result = nodes[candidate].g
            /\ result = Len(output) - 1
    /\ (Returned /\ start_state = DEBUG_START_STATE /\ target_state = DEBUG_TARGET_STATE) =>
            (pc = "SOLVED" /\ result >= 1)

\* C4 witness: go solved DEBUG_TARGET_STATE from a start four slides away
C4_Witness ==
    /\ pc = "SOLVED"
    /\ DIMENSION = 3
    /\ target_state = DEBUG_TARGET_STATE
    /\ result = 4
    /\ nodes[candidate].g = 4
    /\ Len(output) = 5

\* C5: when the start equals the target, go returns 0 and prints the path
\* that holds the start alone: the root is popped first and recognised as the
\* target, and no node is expanded.
C5_StartIsTarget ==
    (start_state = target_state) =>
        /\ expansions = <<>>
        /\ Len(nodes) <= 1
        /\ pc # "EXHAUSTED" /\ pc # "RAISED"
        /\ (pc = "SOLVED") =>
                /\ result = 0
                /\ output = <<Str(start_state)>>
                /\ Path = <<start_state>>
                /\ trace = <<nodes[1]>>
                /\ candidate = 1

\* C5 witness: go returned for a start that equals the target
C5_Witness ==
    /\ start_state = target_state
    /\ pc = "SOLVED"
    /\ result = 0
    /\ Len(output) = 1

\* the nodes that were expanded: those some node has as its parent
Parents == {nodes[i].parent : i \in DOMAIN nodes} \ {None}

\* C6: during a call of go no configuration is expanded twice, and the
\* history map holds one entry per expanded configuration, added in the step
\* that expanded it.
C6_NoReexpansion ==
    /\ \A a, b \in DOMAIN expansions : a # b => expansions[a] # expansions[b]
    /\ {expansions[a] : a \in DOMAIN expansions} = DOMAIN map
    /\ \A p, q \in Parents : p # q => nodes[p].state # nodes[q].state
    /\ \A k \in DOMAIN map : Repr(nodes[map[k]].state) = k

\* C6 witness: a node was popped and discarded because its configuration was
\* in the history, which holds several entries
C6_Witness ==
    /\ pc = "RUNNING"
    /\ candidate # None
    /\ Cardinality(DOMAIN map) >= 3
    /\ Repr(nodes[candidate].state) \in DOMAIN map
    /\ map[Repr(nodes[candidate].state)] # candidate

\* C7: the queue is in ascending order of f after it is built and after
\* every push, so the node pop takes from the front has an f that is at most
\* the f of every node that stays in the queue.
C7_QueueAscending ==
    /\ \A k \in 1..(Len(queue) - 1) : nodes[queue[k]].f <= nodes[queue[k + 1]].f
    /\ \A k \in 1..Len(queue) : nodes[queue[1]].f <= nodes[queue[k]].f
    /\ (candidate # None) =>
            \A k \in 1..Len(queue) :
                nodes[queue[k]].parent # candidate => nodes[candidate].f <= nodes[queue[k]].f

\* C7 witness: a queue that holds nodes of three different f after pushes
C7_Witness ==
    /\ pc = "RUNNING"
    /\ Len(expansions) >= 2
    /\ Cardinality({nodes[queue[k]].f : k \in DOMAIN queue}) >= 3

\* C8: two calls of go with the same start and target pop the same nodes in
\* the same order and return the same path and step count; each call starts
\* with a queue that holds the root (g = 0) alone and an empty history map.
C8_CallsRepeat ==
    /\ \A a, b \in DOMAIN returned : returned[a] = returned[b]
    /\ (pc = "RUNNING" /\ trace = <<>>) =>
            /\ queue = <<1>>
            /\ Len(nodes) = 1
            /\ nodes[1].state = start_state
            /\ nodes[1].g = 0
            /\ nodes[1].parent = None
            /\ DOMAIN map = {}

\* C8 witness: the second call returned, after a first call that left nodes
\* in its queue and entries in its history
C8_Witness ==
    /\ Len(returned) = 2
    /\ calls = 2
    /\ pc = "SOLVED"
    /\ Len(returned[1].trace) >= 4
    /\ ~IsEmpty(queue)
    /\ DOMAIN map # {}

\* C9: for well-formed inputs the loop of go terminates: a running call
\* reaches SOLVED or EXHAUSTED.
C9_Terminates ==
    (pc = "RUNNING" /\ WellFormedInput) ~> (pc = "SOLVED" \/ pc = "EXHAUSTED")

\* C9 witness: a call that returned after popping every node it had pushed
C9_Witness ==
    /\ pc = "EXHAUSTED"
    /\ WellFormedInput
    /\ Len(trace) = Len(nodes)
    /\ Len(trace) > Cardinality(DOMAIN map)

\* the nodes the last step of go made or popped
Fresh == {i \in DOMAIN nodes : i = candidate \/ nodes[i].parent = candidate}

\* C10: the heuristic is admissible: for a well-formed target and a node
\* whose configuration can reach it, h is at most the number of slides of a
\* shortest path from the configuration to the target.
C10_Admissible ==
    WellFormedInput =>
        \A i \in Fresh :
            LET d == Dist(nodes[i].state, target_state)
            IN  /\ nodes[i].h = GetH(nodes[i].state, target_state, DIMENSION)
                /\ d # -1 => nodes[i].h <= d

\* C10 witness: a node three tiles out of place, at distance more than three
C10_Witness ==
    /\ WellFormedInput
    /\ candidate # None
    /\ nodes[candidate].h = 3
    /\ Dist(nodes[candidate].state, target_state) > 3

\* the start configuration has no empty cell
StartHasNoEmpty ==
    \A i \in DOMAIN start_state : \A j \in DOMAIN start_state[i] : start_state[i][j] # EMPTY

\* C11 (as claimed): a call of go whose start configuration has no empty
\* cell ends with a raised error: it never returns a step count or -1.
C11_NoEmptyAlwaysRaises ==
    StartHasNoEmpty => (pc # "SOLVED" /\ pc # "EXHAUSTED")

\* C11 (amended): a call of go whose start configuration has no empty cell
\* ends at its first pop: with a raised error when the start differs from
\* the target at some non-empty target cell, and with step count 0 and the
\* start as the whole path when it matches the target there; it expands
\* nothing and never returns -1.
C11_NoEmptyRaisesUnlessTarget ==
    StartHasNoEmpty =>
        /\ pc # "EXHAUSTED"
        /\ expansions = <<>>
        /\ Len(nodes) <= 1
        /\ (trace # <<>>) => (pc = "SOLVED" \/ pc = "RAISED")
        /\ (pc = "RAISED") => (~MatchesTarget(start_state) /\ result = None /\ output = <<>>)
        /\ (pc = "SOLVED") =>
                (MatchesTarget(start_state) /\ result = 0 /\ output = <<Str(start_state)>>)

\* C11 witness: the error was raised for a start with no empty cell
C11_Witness ==
    /\ StartHasNoEmpty
    /\ pc = "RAISED"
    /\ Len(trace) = 1
    /\ ~MatchesTarget(start_state)

\* the key of the node popped last
CandidateKey == Repr(nodes[candidate].state)

\* C12: every node the history map records was reached by a shortest path:
\* its g is the number of slides of a shortest path from the start to its
\* configuration; so a popped node that is discarded because its key is in
\* the map has a g that is at least the g of the recorded node.
C12_FirstExpansionIsShortest ==
    WellFormedInput =>
        /\ \A k \in DOMAIN map : nodes[map[k]].g = Dist(start_state, nodes[map[k]].state)
        /\ (candidate # None /\ CandidateKey \in DOMAIN map) =>
                /\ nodes[map[CandidateKey]].state = nodes[candidate].state
                /\ nodes[candidate].g >= nodes[map[CandidateKey]].g

\* C12 witness: a node was discarded whose path is longer than the path of
\* the node recorded for its configuration
C12_Witness ==
    /\ WellFormedInput
    /\ pc = "RUNNING"
    /\ candidate # None
    /\ CandidateKey \in DOMAIN map
    /\ map[CandidateKey] # candidate
    /\ nodes[candidate].g > nodes[map[CandidateKey]].g
    /\ nodes[map[CandidateKey]].g >= 2
----------------------------------------------------------------------------
\* The references held by a queue
InQueue(q) == {q[k] : k \in DOMAIN q}

\* a reference is the position of its node in the order of construction, which
\* is the order of insertion: the root, then each batch of children in the
\* order of create_children
FirstInserted(ns, q) ==
    CHOOSE r \in InQueue(q) :
        \A s \in InQueue(q) : ns[r].f < ns[s].f \/ (ns[r].f = ns[s].f /\ r <= s)

\* C13: ties are broken first-inserted-first-returned: every pop returns, of
\* the nodes of the queue with the least f, the one inserted earliest, and
\* the nodes of equal f stay in the queue in their order of insertion (the
\* children of one batch in the order down, up, right, left).
C13_TiesFirstInFirstOut ==
    [][ /\ (Len(trace') = Len(trace) + 1) =>
                /\ candidate' = FirstInserted(nodes, queue)
                /\ trace'[Len(trace')] = nodes[candidate']
        /\ \A k, l \in DOMAIN queue' :
                (k < l /\ nodes'[queue'[k]].f = nodes'[queue'[l]].f) => queue'[k] < queue'[l]
      ]_vars

\* a pop chose between tied nodes of two batches and of one batch: the popped
\* node left behind a sibling and a node of a later batch with its f
C13_Witness ==
    /\ pc = "RUNNING"
    /\ candidate # None
    /\ nodes[candidate].parent # None
    /\ \E r, s \in InQueue(queue) :
        /\ nodes[r].f = nodes[candidate].f
        /\ nodes[s].f = nodes[candidate].f
        /\ nodes[r].parent = nodes[candidate].parent
        /\ nodes[s].parent # nodes[candidate].parent
        /\ nodes[s].parent # candidate
        /\ candidate < r
        /\ r < s
----------------------------------------------------------------------------
Abs(x) == IF x < 0 THEN 0 - x ELSE x

OneEmpty(state) ==
    Cardinality({p \in (DOMAIN state) \X (DOMAIN state) : state[p[1]][p[2]] = EMPTY}) = 1

\* C14: the heuristic is consistent under unit move cost: a configuration
\* with exactly one empty cell and any configuration one legal slide away
\* have h values that differ by at most 1 (so h(c) <= 1 + h(c')), whether the
\* slide is one a node was built for or not, and h is 0 at the target.
C14_Consistent ==
    /\ GetH(target_state, target_state, DIMENSION) = 0
    /\ \A i \in DOMAIN nodes :
        /\ (nodes[i].parent # None) =>
                /\ nodes[i].state \in Slides(nodes[nodes[i].parent].state)
                /\ Abs(nodes[i].h - nodes[nodes[i].parent].h) <= 1
                /\ nodes[nodes[i].parent].h <= 1 + nodes[i].h
        /\ OneEmpty(nodes[i].state) =>
                \A c \in Slides(nodes[i].state) :
                    Abs(GetH(c, target_state, DIMENSION) - nodes[i].h) <= 1

\* one slide raised h, another lowered it, a third left it as it was (a tile
\* moved between two cells that are both not its own)
C14_Witness ==
    \E i, j, k \in DOMAIN nodes :
        /\ nodes[i].parent # None /\ nodes[j].parent # None /\ nodes[k].parent # None
        /\ nodes[i].h = nodes[nodes[i].parent].h + 1
        /\ nodes[j].h = nodes[nodes[j].parent].h - 1
        /\ nodes[k].h = nodes[nodes[k].parent].h
----------------------------------------------------------------------------
\* the cell of the one empty tile of a configuration
EmptyCell(state) ==
    CHOOSE p \in (DOMAIN state) \X (DOMAIN state) : state[p[1]][p[2]] = EMPTY

\* the place of a neighbour in the order down, up, right, left
Direction(pos, q) ==
    IF q = <<pos[1] + 1, pos[2]>> THEN 1
    ELSE IF q = <<pos[1] - 1, pos[2]>> THEN 2
    ELSE IF q = <<pos[1], pos[2] + 1>> THEN 3
    ELSE IF q = <<pos[1], pos[2] - 1>> THEN 4
    ELSE 0

\* the cells of the board next to pos
Neighbours(pos, D) == {q \in Range(D) \X Range(D) : Adjacent(pos, q)}

\* on how many of the four sides of the board the cell lies
Borders(pos, D) ==
    (IF pos[1] = 0 THEN 1 ELSE 0) + (IF pos[1] = D - 1 THEN 1 ELSE 0)
    + (IF pos[2] = 0 THEN 1 ELSE 0) + (IF pos[2] = D - 1 THEN 1 ELSE 0)

\* the nodes whose predecessor is p, in the order of their construction
ChildrenOf(ns, p) == SelectSeq([i \in DOMAIN ns |-> i], LAMBDA i : ns[i].parent = p)

\* C15: the expansion of a node whose empty cell is at pos builds exactly one
\* child per neighbour of pos on the board (2 at a corner, 3 on an edge, 4 in
\* the interior of a 3 x 3 board), in the order down, up, right, left; the
\* child for neighbour q has the parent's configuration with the labels at
\* pos and q exchanged, g = parent.g + 1, f = g + h, and the parent as its
\* predecessor.
C15_ChildrenOfExpansion ==
    [][ (Len(expansions') = Len(expansions) + 1) =>
            LET parent   == candidate'
                pos      == EmptyCell(nodes[parent].state)
                children == ChildrenOf(nodes', parent)
                cell(k)  == EmptyCell(nodes'[children[k]].state)
            IN  /\ OneEmpty(nodes[parent].state)
                /\ ChildrenOf(nodes, parent) = <<>>
                /\ Len(nodes') = Len(nodes) + Len(children)
                /\ Len(children) = Cardinality(Neighbours(pos, DIMENSION))
                /\ (DIMENSION = 3) => Len(children) = 4 - Borders(pos, DIMENSION)
                /\ {cell(k) : k \in DOMAIN children} = Neighbours(pos, DIMENSION)
                /\ \A k, l \in DOMAIN children :
                        k < l => Direction(pos, cell(k)) < Direction(pos, cell(l))
                /\ \A k \in DOMAIN children :
                    LET child == nodes'[children[k]]
                    IN  /\ children[k] = Len(nodes) + k
                        /\ OneEmpty(child.state)
                        /\ child.state = Exchange(nodes[parent].state, pos, cell(k))
                        /\ child.g = nodes[parent].g + 1
                        /\ child.f = child.g + child.h
                        /\ child.parent = parent
      ]_vars

\* one run of go on a 3 x 3 board expanded a node with the empty cell at a
\* corner, one with it on an edge and one with it in the interior
C15_Witness ==
    /\ DIMENSION = 3
    /\ \E a, b, c \in DOMAIN nodes :
        /\ Len(ChildrenOf(nodes, a)) = 2 /\ Borders(EmptyCell(nodes[a].state), 3) = 2
        /\ Len(ChildrenOf(nodes, b)) = 3 /\ Borders(EmptyCell(nodes[b].state), 3) = 1
        /\ Len(ChildrenOf(nodes, c)) = 4 /\ Borders(EmptyCell(nodes[c].state), 3) = 0
----------------------------------------------------------------------------
\* C16: nodes are immutable after construction: no step of a run of go
\* changes the configuration, g, h, f or predecessor of a node that exists
\* (the expanded node included: its children are built on copies), the
\* history keeps referring to the nodes it recorded, and the start and target
\* configurations of the caller are never changed, so that they are the
\* caller's own when go returns.
C16_NodesImmutable ==
    [][ /\ start_state' = start_state
        /\ target_state' = target_state
        /\ (pc = "RUNNING") =>
                /\ Len(nodes') >= Len(nodes)
                /\ \A i \in DOMAIN nodes : nodes'[i] = nodes[i]
                /\ \A k \in DOMAIN map : k \in DOMAIN map' /\ map'[k] = map[k]
                /\ (candidate' # None) => nodes'[candidate'].state = nodes[candidate'].state
        /\ (nodes' # <<>>) => nodes'[1].state = start_state'
        /\ (pc' \in {"SOLVED", "EXHAUSTED"}) =>
                /\ nodes'[1].state = start_state
                /\ \A i \in DOMAIN nodes' :
                        nodes'[i].h = GetH(nodes'[i].state, target_state, DIMENSION)
      ]_vars

\* go returned after it expanded several nodes, with nodes left in the frontier
C16_Witness ==
    /\ pc = "SOLVED"
    /\ Len(expansions) >= 3
    /\ queue # <<>>
    /\ nodes[1].state = start_state
    /\ \E i \in DOMAIN nodes : nodes[i].parent # None /\ nodes[i].parent # 1
----------------------------------------------------------------------------
\* C17: revisits are handled by lazy discard, never by replacement.  A step
\* that pushes children keeps every node that was in the frontier, unaltered
\* and in the same relative order, and adds exactly the children, whether or
\* not a child's configuration is already queued or recorded; a step that
\* pops a node that is not the target and whose key is recorded pushes
\* nothing, leaves the history as it was and only removes the popped node
\* from the frontier.
C17_LazyDiscard ==
    [][ /\ (Len(expansions') = Len(expansions) + 1) =>
                /\ SelectSeq(queue', LAMBDA r : r <= Len(nodes)) = Tail(queue)
                /\ InQueue(queue') \ InQueue(Tail(queue)) = (Len(nodes) + 1)..Len(nodes')
                /\ Len(queue') = Len(queue) - 1 + (Len(nodes') - Len(nodes))
                /\ \A i \in DOMAIN nodes : nodes'[i] = nodes[i]
                /\ DOMAIN map' = DOMAIN map \cup {Repr(nodes[candidate'].state)}
                /\ \A k \in DOMAIN map : map'[k] = map[k]
        /\ ( /\ pc = "RUNNING"
             /\ queue # <<>>
             /\ ~IsTarget(nodes[Head(queue)])
             /\ Repr(nodes[Head(queue)].state) \in DOMAIN map ) =>
                /\ candidate' = Head(queue)
                /\ queue' = Tail(queue)
                /\ map' = map
                /\ nodes' = nodes
                /\ expansions' = expansions
                /\ pc' = "RUNNING"
      ]_vars

\* a node was discarded because its key was recorded, while the frontier
\* holds two nodes of one configuration and a node whose configuration is
\* recorded
C17_Witness ==
    /\ pc = "RUNNING"
    /\ candidate # None
    /\ CandidateKey \in DOMAIN map
    /\ map[CandidateKey] # candidate
    /\ \E r, s \in InQueue(queue) : r # s /\ nodes[r].state = nodes[s].state
    /\ \E r \in InQueue(queue) : Repr(nodes[r].state) \in DOMAIN map
----------------------------------------------------------------------------
\* C18: for well-formed inputs (the labels of the target, one empty cell)
\* is_target holds of a node exactly when its configuration equals the
\* target in every cell, the empty cell included; so go stops only at the
\* target configuration, and a node it popped without stopping is never the
\* target configuration.
C18_IsTargetIffEqual ==
    WellFormedInput =>
        /\ \A i \in DOMAIN nodes :
            /\ IsTarget(nodes[i]) <=> (nodes[i].state = target_state)
            /\ (nodes[i].h = 0) <=> (nodes[i].state = target_state)
        /\ (pc = "SOLVED") =>
                /\ nodes[candidate].state = target_state
                /\ trace[Len(trace)].state = target_state
        /\ \A k \in DOMAIN trace :
                (trace[k].state = target_state) => (pc = "SOLVED" /\ k = Len(trace))

\* go stopped at the target after it popped, without stopping, nodes with a
\* single tile out of place
C18_Witness ==
    /\ WellFormedInput
    /\ pc = "SOLVED"
    /\ Len(trace) >= 3
    /\ nodes[candidate].state = target_state
    /\ \E k \in DOMAIN trace : trace[k].h = 1 /\ k < Len(trace) - 1
----------------------------------------------------------------------------
\* the configurations that legal slides lead to from those of S
RECURSIVE Closure(_)
Closure(S) ==
    LET T == S \cup UNION {Slides(c) : c \in S}
    IN  IF T = S THEN S ELSE Closure(T)

Reachable(c) == Closure({c})

\* C19: when go returns -1 the search was exhaustive: the history holds
\* exactly the configurations that legal slides reach from the start, each
\* expanded, none of them with h = 0, and nothing is left in the frontier.
C19_ExhaustedIsExhaustive ==
    (pc = "EXHAUSTED") =>
        /\ result = -1
        /\ DOMAIN map = {Repr(c) : c \in Reachable(start_state)}
        /\ {expansions[k] : k \in DOMAIN expansions} = DOMAIN map
        /\ \A k \in DOMAIN map :
            /\ Repr(nodes[map[k]].state) = k
            /\ nodes[map[k]].h # 0
        /\ \A c \in Reachable(start_state) : GetH(c, target_state, DIMENSION) # 0
        /\ queue = <<>>

\* go returned -1 for a start with an empty cell, after it expanded the
\* whole class of the start in the move graph
C19_Witness ==
    /\ pc = "EXHAUSTED"
    /\ OneEmpty(start_state)
    /\ Cardinality(Reachable(start_state)) > 1
    /\ Len(expansions) = Cardinality(Reachable(start_state))
----------------------------------------------------------------------------
\* C20: over a run of go the f values of the popped nodes never decrease:
\* each popped node has f greater than or equal to the f of the node popped
\* before it, every node has f greater than or equal to the f of its parent,
\* and no node waiting in the frontier has f below that of the node popped
\* last.
C20_PoppedFNeverDecreases ==
    /\ \A k \in DOMAIN trace : (k > 1) => trace[k - 1].f <= trace[k].f
    /\ \A i \in DOMAIN nodes :
            (nodes[i].parent # None) => nodes[nodes[i].parent].f <= nodes[i].f
    /\ (trace # <<>>) =>
            \A r \in InQueue(queue) : trace[Len(trace)].f <= nodes[r].f

\* a run popped nodes of equal f one after the other, and later a node of
\* greater f
C20_Witness ==
    /\ Len(trace) >= 4
    /\ \E k, l \in DOMAIN trace :
        /\ 1 < k /\ k < l
        /\ trace[k - 1].f = trace[k].f
        /\ trace[l - 1].f < trace[l].f

====
